---- MODULE Spec2Model ----
(***************************************************************************)
(* version_buddy.semver: the SemVer 2.0 parser (parse, _ParserState, the   *)
(* grammar rules), the Identifier and SemVer value types and SemVer's      *)
(* stringification, as a state machine whose steps are the parser's        *)
(* decisions on the cursor.                                                *)
(*                                                                         *)
(* A text is a sequence of characters (one element per Python str item,    *)
(* i.e. per code point).  Characters are written as one-character strings; *)
(* the three non-ASCII representatives are written by code point.          *)
(***************************************************************************)
EXTENDS Integers, Sequences, FiniteSets

\* ------------------------------------------------------------ characters

\* ARABIC-INDIC DIGIT ZERO: str.isdigit() is True, category Nd, int() reads 0.
ArabicZero == "U+0660"
\* SUPERSCRIPT TWO: str.isdigit() is True, category No, int() raises ValueError.
SuperTwo == "U+00B2"
\* CUNEIFORM SIGN A: a letter (category Lo) outside the Basic Multilingual Plane.
CuneiformA == "U+12000"

Alphabet == {"0", "1", "a", ".", "-", "+", " ", ArabicZero, SuperTwo, CuneiformA}

ascii_digits == {"0", "1", "2", "3", "4", "5", "6", "7", "8", "9"}

ascii_letters ==
  {"a", "b", "c", "d", "e", "f", "g", "h", "i", "j", "k", "l", "m",
   "n", "o", "p", "q", "r", "s", "t", "u", "v", "w", "x", "y", "z",
   "A", "B", "C", "D", "E", "F", "G", "H", "I", "J", "K", "L", "M",
   "N", "O", "P", "Q", "R", "S", "T", "U", "V", "W", "X", "Y", "Z"}

\* str.isdigit of one character.
isdigit(c) == c \in ascii_digits \cup {ArabicZero, SuperTwo}

is_latin_alphanumeric(c) == c \in ascii_letters \/ c \in ascii_digits

\* General category in Lu Ll Lt Lm Lo Nd Nl No.
is_unicode_alphanumeric(c) ==
  c \in ascii_letters \cup ascii_digits \cup {ArabicZero, SuperTwo, CuneiformA}

check_if_char(expected, c) == c = expected

is_dot(c) == check_if_char(".", c)

is_prerelease_start(c) == check_if_char("-", c)

is_build_start(c) == check_if_char("+", c)

\* ------------------------------------------------------------ int() and str() of an int

DigitValue(c) ==
  CASE c = "0" -> 0 [] c = "1" -> 1 [] c = "2" -> 2 [] c = "3" -> 3 [] c = "4" -> 4
    [] c = "5" -> 5 [] c = "6" -> 6 [] c = "7" -> 7 [] c = "8" -> 8 [] c = "9" -> 9
    [] c = ArabicZero -> 0

\* int(num_str) raises ValueError unless every character is a decimal digit.
IntValid(num_str) ==
  /\ Len(num_str) > 0
  /\ \A i \in 1..Len(num_str) : num_str[i] \in ascii_digits \cup {ArabicZero}

RECURSIVE IntOf(_)
IntOf(num_str) ==
  IF Len(num_str) = 0 THEN 0
  ELSE 10 * IntOf(SubSeq(num_str, 1, Len(num_str) - 1)) + DigitValue(num_str[Len(num_str)])

DigitChar(d) ==
  CASE d = 0 -> "0" [] d = 1 -> "1" [] d = 2 -> "2" [] d = 3 -> "3" [] d = 4 -> "4"
    [] d = 5 -> "5" [] d = 6 -> "6" [] d = 7 -> "7" [] d = 8 -> "8" [] d = 9 -> "9"

\* The decimal text of a non-negative int, as an f-string field renders it.
RECURSIVE DecStr(_)
DecStr(n) == IF n < 10 THEN <<DigitChar(n)>> ELSE DecStr(n \div 10) \o <<DigitChar(n % 10)>>

\* ------------------------------------------------------------ value types

MAX_VERSION_STRING_CODEUNIT_COUNT == 256

\* Identifier.__init__: ok is FALSE when the constructor raises.
Identifier(value, validated) ==
  IF ~validated /\ (Len(value) = 0 \/ ~(\A i \in 1..Len(value) : is_latin_alphanumeric(value[i])))
  THEN [ok |-> FALSE, value |-> value]
  ELSE [ok |-> TRUE, value |-> value]

SemVer(ma, mi, pa, pre, build) ==
  [major |-> ma, minor |-> mi, patch |-> pa,
   prerelease_identifiers |-> pre, build_identifiers |-> build]

\* The value slot of an outcome that carries no SemVer.
NoSemVer == SemVer(-1, -1, -1, <<>>, <<>>)

\* ".".join(map(str, identifiers))
RECURSIVE JoinDot(_)
JoinDot(ids) ==
  IF Len(ids) = 0 THEN <<>>
  ELSE IF Len(ids) = 1 THEN ids[1].value
  ELSE ids[1].value \o <<".">> \o JoinDot(Tail(ids))

\* SemVer.__str__ with the build section appended under the pre-release test.
SemVer_str_build_under_prerelease(v) ==
  LET prerelease == JoinDot(v.prerelease_identifiers)
      build == JoinDot(v.build_identifiers)
      s0 == DecStr(v.major) \o <<".">> \o DecStr(v.minor) \o <<".">> \o DecStr(v.patch)
      s1 == IF prerelease # <<>> THEN s0 \o <<"-">> \o prerelease ELSE s0
  IN IF prerelease # <<>> THEN s1 \o <<"+">> \o build ELSE s1

\* SemVer.__str__
SemVer_str(v) ==
  LET prerelease == JoinDot(v.prerelease_identifiers)
      build == JoinDot(v.build_identifiers)
      s0 == DecStr(v.major) \o <<".">> \o DecStr(v.minor) \o <<".">> \o DecStr(v.patch)
      s1 == IF prerelease # <<>> THEN s0 \o <<"-">> \o prerelease ELSE s0
  IN IF build # <<>> THEN s1 \o <<"+">> \o build ELSE s1

\* ------------------------------------------------------------ _ParserState

NoChar == "None"

NoCursor == [created |-> FALSE, input |-> <<>>, offset |-> 0]

ParserState(input) == [created |-> TRUE, input |-> input, offset |-> 0]

peek(p) == IF p.offset < Len(p.input) THEN p.input[p.offset + 1] ELSE NoChar

\* The predicates handed to peek_and_then, by name.
Call(f, c) ==
  CASE f = "isdigit" -> isdigit(c)
    [] f = "is_dot" -> is_dot(c)
    [] f = "is_prerelease_start" -> is_prerelease_start(c)
    [] f = "is_build_start" -> is_build_start(c)

\* peek_and_then(f) for a predicate f: None is falsy wherever the parser tests it.
peek_and_then(p, f) == LET candidate == peek(p) IN IF candidate # NoChar THEN Call(f, candidate) ELSE FALSE

\* advance(): ok is FALSE when it raises "Internal Error: advanced beyond input".
advance(p) ==
  IF p.offset < Len(p.input)
  THEN [ok |-> TRUE, c |-> peek(p), p |-> [p EXCEPT !.offset = p.offset + 1]]
  ELSE [ok |-> FALSE, c |-> NoChar, p |-> p]

at_end(p) == p.offset = Len(p.input)

\* ------------------------------------------------------------ outcomes of parse

\* A raised error: kind is the exception class, msg the message template, name and
\* at the values formatted into it (at is -1 when the message has no offset).
Raised(kind, msg, name, at) ==
  [kind |-> kind, msg |-> msg, name |-> name, at |-> at, value |-> NoSemVer]

Returned(v) == [kind |-> "SemVer", msg |-> "", name |-> "", at |-> -1, value |-> v]

Running == [kind |-> "running", msg |-> "", name |-> "", at |-> -1, value |-> NoSemVer]

MsgType == "s must be a string"
MsgLimit == "Limit exceeded: MAX_VERSION_STRING_CODEUNIT_COUNT"
MsgNumber == "Expected {name} version number at offset {p.offset}"
MsgZero == "Unexpected digit at offset {p.offset}, numbers cannot start with zero"
MsgDelimiter == "Expected delimiter at offset {p.offset}"
MsgIdentifier == "Expected {name} identifier at offset {p.offset}"
MsgLatin == "Unexpected alphanumeric character {c} at offset {p.offset} (SemVer is latin alphabet only)"
MsgTrailing == "Unexpected character at offset {p.offset}"
MsgInternal == "Internal Error: advanced beyond input"
MsgInt == "invalid literal for int() with base 10"

\* The call ends with exception e.
Raise(s, e) == [s EXCEPT !.pc = "done", !.result = e]

ParseError(s, msg, name) == Raise(s, Raised("SemVerParseError", msg, name, s.p.offset))

InternalError(s) == Raise(s, Raised("SemVerParseError", MsgInternal, "", -1))

\* ------------------------------------------------------------ the state of one call

\* The argument of parse: a text, or a value that is no str.
TextArg(t) == [kind |-> "str", text |-> t]

NonTextArgs == {[kind |-> k, text |-> <<>>] : k \in {"NoneType", "int", "list"}}

Start(a) ==
  [arg |-> a, pc |-> "parse", p |-> NoCursor, name |-> "",
   num_str |-> <<>>, should_be_zero |-> FALSE,
   major |-> -1, minor |-> -1, patch |-> -1,
   current |-> <<>>, identifiers |-> <<>>,
   prerelease_identifiers |-> <<>>, build_identifiers |-> <<>>,
   markers |-> <<>>, result |-> Running]

\* ------------------------------------------------------------ parse, entry

\* parse's entry with the length guard written >= instead of >.
parse_enter_ge(s) ==
  IF s.arg.kind # "str" THEN Raise(s, Raised("TypeError", MsgType, "", -1))
  ELSE IF Len(s.arg.text) >= MAX_VERSION_STRING_CODEUNIT_COUNT
  THEN Raise(s, Raised("SemVerParseError", MsgLimit, "", -1))
  ELSE [s EXCEPT !.p = ParserState(s.arg.text), !.pc = "vc_first", !.name = "major"]

\* The type guard, the length guard and the creation of the cursor.
parse_enter(s) ==
  IF s.arg.kind # "str" THEN Raise(s, Raised("TypeError", MsgType, "", -1))
  ELSE IF Len(s.arg.text) > MAX_VERSION_STRING_CODEUNIT_COUNT
  THEN Raise(s, Raised("SemVerParseError", MsgLimit, "", -1))
  ELSE [s EXCEPT !.p = ParserState(s.arg.text), !.pc = "vc_first", !.name = "major"]

\* ------------------------------------------------------------ _expect_version_component

next_is_digit(p) == peek_and_then(p, "isdigit")

\* The first digit of the component.
vc_first(s) ==
  IF next_is_digit(s.p)
  THEN LET a == advance(s.p) IN
       IF ~a.ok THEN InternalError(s)
       ELSE [s EXCEPT !.p = a.p, !.num_str = <<a.c>>, !.should_be_zero = (a.c = "0"),
                      !.pc = "vc_zero"]
  ELSE ParseError(s, MsgNumber, s.name)

\* The leading-zero check reporting the position of the zero, not of the digit after it.
vc_zero_at_zero(s) ==
  IF next_is_digit(s.p) /\ s.should_be_zero
  THEN Raise(s, Raised("SemVerParseError", MsgZero, "", s.p.offset - 1))
  ELSE [s EXCEPT !.pc = "vc_rest"]

\* The leading-zero check.
vc_zero(s) ==
  IF next_is_digit(s.p) /\ s.should_be_zero
  THEN ParseError(s, MsgZero, "")
  ELSE [s EXCEPT !.pc = "vc_rest"]

\* The component is returned to parse, which goes on to the next rule.
vc_return(s) ==
  IF ~IntValid(s.num_str) THEN Raise(s, Raised("ValueError", MsgInt, "", -1))
  ELSE LET n == IntOf(s.num_str) IN
       CASE s.name = "major" -> [s EXCEPT !.major = n, !.pc = "delimiter"]
         [] s.name = "minor" -> [s EXCEPT !.minor = n, !.pc = "delimiter"]
         [] s.name = "patch" -> [s EXCEPT !.patch = n, !.pc = "prerelease_start"]

\* One turn of the greedy digit loop, or its end and int(num_str).
vc_rest(s) ==
  IF next_is_digit(s.p)
  THEN LET a == advance(s.p) IN
       IF ~a.ok THEN InternalError(s)
       ELSE [s EXCEPT !.p = a.p, !.num_str = Append(s.num_str, a.c)]
  ELSE vc_return(s)

\* ------------------------------------------------------------ expect_delimiter

\* expect_delimiter advancing without looking first.
expect_delimiter_unchecked(s) ==
  LET a == advance(s.p) IN
  IF ~a.ok THEN InternalError(s)
  ELSE IF ~is_dot(a.c) THEN ParseError(s, MsgDelimiter, "")
  ELSE [s EXCEPT !.p = a.p, !.pc = "vc_first",
                 !.name = IF s.name = "major" THEN "minor" ELSE "patch"]

expect_delimiter(s) ==
  IF ~peek_and_then(s.p, "is_dot")
  THEN ParseError(s, MsgDelimiter, "")
  ELSE LET a == advance(s.p) IN
       IF ~a.ok THEN InternalError(s)
       ELSE [s EXCEPT !.p = a.p, !.pc = "vc_first",
                      !.name = IF s.name = "major" THEN "minor" ELSE "patch"]

\* ------------------------------------------------------------ _expect_identifiers

\* next_is_alphanumeric taking every Unicode alphanumeric.
next_is_alphanumeric_unicode(p) ==
  LET c == peek(p) IN
  IF c = NoChar THEN "no"
  ELSE IF is_latin_alphanumeric(c) \/ is_unicode_alphanumeric(c) THEN "yes"
  ELSE "no"

\* next_is_alphanumeric: "yes", "no", or "raise" for a non-Latin alphanumeric.
next_is_alphanumeric(p) ==
  LET c == peek(p) IN
  IF c = NoChar THEN "no"
  ELSE IF is_latin_alphanumeric(c) THEN "yes"
  ELSE IF is_unicode_alphanumeric(c) THEN "raise"
  ELSE "no"

\* The top of the while True loop: the first character of an identifier.
id_first(s) ==
  LET n == next_is_alphanumeric(s.p) IN
  IF n = "raise" THEN ParseError(s, MsgLatin, peek(s.p))
  ELSE IF n = "yes"
  THEN LET a == advance(s.p) IN
       IF ~a.ok THEN InternalError(s)
       ELSE [s EXCEPT !.p = a.p, !.current = <<a.c>>, !.pc = "id_rest"]
  ELSE ParseError(s, MsgIdentifier, s.name)

\* One turn of the inner loop, or its end and the append of the Identifier.
id_rest(s) ==
  LET n == next_is_alphanumeric(s.p) IN
  IF n = "raise" THEN ParseError(s, MsgLatin, peek(s.p))
  ELSE IF n = "yes"
  THEN LET a == advance(s.p) IN
       IF ~a.ok THEN InternalError(s)
       ELSE [s EXCEPT !.p = a.p, !.current = Append(s.current, a.c)]
  ELSE LET id == Identifier(s.current, TRUE) IN
       [s EXCEPT !.identifiers = Append(s.identifiers, [value |-> id.value]),
                 !.pc = "id_dot"]

\* The return of the list with the build list followed by a new look for "-".
id_return_rescan(s) ==
  IF Len(s.identifiers) = 0 THEN ParseError(s, MsgIdentifier, s.name)
  ELSE IF s.name = "pre-release"
  THEN [s EXCEPT !.prerelease_identifiers = s.identifiers, !.pc = "build_start"]
  ELSE [s EXCEPT !.build_identifiers = s.identifiers, !.pc = "prerelease_start"]

\* The list is returned to parse, which stores it and goes on.
id_return(s) ==
  IF Len(s.identifiers) = 0 THEN ParseError(s, MsgIdentifier, s.name)
  ELSE IF s.name = "pre-release"
  THEN [s EXCEPT !.prerelease_identifiers = s.identifiers, !.pc = "build_start"]
  ELSE [s EXCEPT !.build_identifiers = s.identifiers, !.pc = "at_end"]

\* After an identifier: a dot continues the loop, anything else breaks it.
id_dot(s) ==
  IF peek_and_then(s.p, "is_dot")
  THEN LET a == advance(s.p) IN
       IF ~a.ok THEN InternalError(s)
       ELSE [s EXCEPT !.p = a.p, !.pc = "id_first"]
  ELSE id_return(s)

\* ------------------------------------------------------------ parse, the sections

\* The optional pre-release section.
prerelease_start(s) ==
  IF peek_and_then(s.p, "is_prerelease_start")
  THEN LET a == advance(s.p) IN
       IF ~a.ok THEN InternalError(s)
       ELSE [s EXCEPT !.p = a.p, !.markers = Append(s.markers, a.c), !.name = "pre-release",
                      !.identifiers = <<>>, !.current = <<>>, !.pc = "id_first"]
  ELSE [s EXCEPT !.pc = "build_start"]

\* The optional build section.
build_start(s) ==
  IF peek_and_then(s.p, "is_build_start")
  THEN LET a == advance(s.p) IN
       IF ~a.ok THEN InternalError(s)
       ELSE [s EXCEPT !.p = a.p, !.markers = Append(s.markers, a.c), !.name = "build",
                      !.identifiers = <<>>, !.current = <<>>, !.pc = "id_first"]
  ELSE [s EXCEPT !.pc = "at_end"]

\* The end check and the construction of the SemVer.
parse_return(s) ==
  IF ~at_end(s.p) THEN ParseError(s, MsgTrailing, "")
  ELSE Raise(s, Returned(SemVer(s.major, s.minor, s.patch,
                                s.prerelease_identifiers, s.build_identifiers)))

\* ------------------------------------------------------------ a whole call

StepOf(s) ==
  CASE s.pc = "parse" -> parse_enter(s)
    [] s.pc = "vc_first" -> vc_first(s)
    [] s.pc = "vc_zero" -> vc_zero(s)
    [] s.pc = "vc_rest" -> vc_rest(s)
    [] s.pc = "delimiter" -> expect_delimiter(s)
    [] s.pc = "prerelease_start" -> prerelease_start(s)
    [] s.pc = "build_start" -> build_start(s)
    [] s.pc = "id_first" -> id_first(s)
    [] s.pc = "id_rest" -> id_rest(s)
    [] s.pc = "id_dot" -> id_dot(s)
    [] s.pc = "at_end" -> parse_return(s)

\* A finished call stays finished.
StepOrStay(s) == IF s.pc = "done" THEN s ELSE StepOf(s)

Steps4(s) == StepOrStay(StepOrStay(StepOrStay(StepOrStay(s))))

RECURSIVE RunFrom(_)
RunFrom(s) == IF s.pc = "done" THEN s ELSE RunFrom(Steps4(Steps4(s)))

\* parse(a): the outcome of the whole call.
parse(a) == RunFrom(Start(a)).result


\* ------------------------------------------------------------ the documented grammar

positive_digit == {"1", "2", "3", "4", "5", "6", "7", "8", "9"}

digit == {"0"} \cup positive_digit

letter == ascii_letters

non_digit == letter \cup {"-"}

identifier_character == digit \cup non_digit

Sub(t, i, j) == SubSeq(t, i, j)

digits(t) == Len(t) > 0 /\ \A i \in 1..Len(t) : t[i] \in digit

numeric_identifier(t) ==
  \/ t = <<"0">>
  \/ /\ Len(t) > 0
     /\ t[1] \in positive_digit
     /\ \A i \in 2..Len(t) : t[i] \in digit

identifier_characters(t) == Len(t) > 0 /\ \A i \in 1..Len(t) : t[i] \in identifier_character

alphanumeric_identifier(t) ==
  /\ identifier_characters(t)
  /\ \E i \in 1..Len(t) : t[i] \in non_digit

pre_release_identifier(t) == alphanumeric_identifier(t) \/ numeric_identifier(t)

build_identifier(t) == alphanumeric_identifier(t) \/ digits(t)

\* <dot-separated ... identifiers>: the pieces between the dots are identifiers
\* (no identifier contains a dot, so the derivation splits at every dot).
dot_separated(t, kind) ==
  LET cuts == {0, Len(t) + 1} \cup {i \in 1..Len(t) : t[i] = "."}
  IN \A i \in cuts \ {Len(t) + 1} :
       LET j == CHOOSE k \in cuts : k > i /\ \A m \in cuts : m > i => k <= m
       IN IF kind = "pre-release" THEN pre_release_identifier(Sub(t, i + 1, j - 1))
          ELSE build_identifier(Sub(t, i + 1, j - 1))

pre_release(t) == dot_separated(t, "pre-release")

build(t) == dot_separated(t, "build")

version_core(t) ==
  \E i \in 1..Len(t) :
    /\ t[i] = "."
    /\ numeric_identifier(Sub(t, 1, i - 1))
    /\ \E j \in (i + 1)..Len(t) :
         /\ t[j] = "."
         /\ numeric_identifier(Sub(t, i + 1, j - 1))
         /\ numeric_identifier(Sub(t, j + 1, Len(t)))

valid_semver(t) ==
  \/ version_core(t)
  \/ \E i \in 1..Len(t) :
       /\ t[i] = "-"
       /\ version_core(Sub(t, 1, i - 1))
       /\ pre_release(Sub(t, i + 1, Len(t)))
  \/ \E i \in 1..Len(t) :
       /\ t[i] = "+"
       /\ version_core(Sub(t, 1, i - 1))
       /\ build(Sub(t, i + 1, Len(t)))
  \/ \E i \in 1..Len(t) :
       /\ t[i] = "-"
       /\ version_core(Sub(t, 1, i - 1))
       /\ \E j \in (i + 1)..Len(t) :
            /\ t[j] = "+"
            /\ pre_release(Sub(t, i + 1, j - 1))
            /\ build(Sub(t, j + 1, Len(t)))

\* ------------------------------------------------------------ the inputs explored

\* Longest text of the exhaustive family.
MaxShort == 3
\* Longest digit run of a version component in the component family.
MaxDigits == 2
\* Longest text that follows the version core in the section family.
MaxTail == 4
\* How far below and above the length limit the long texts reach.
LimitMargin == 1

Texts(n) == UNION {[1..k -> Alphabet] : k \in 0..n}

Digits == {"0", "1", ArabicZero, SuperTwo}

DigitRuns == UNION {[1..k -> Digits] : k \in 1..MaxDigits}

Rep(c, n) == [i \in 1..n |-> c]

\* Every text up to MaxShort characters.
ShortTexts == Texts(MaxShort)

\* Version cores in which one component is any digit run.
ComponentTexts ==
  {r \o <<".", "0", ".", "0">> : r \in DigitRuns}
    \cup {<<"0", ".">> \o r \o <<".", "0">> : r \in DigitRuns}
    \cup {<<"0", ".", "0", ".">> \o r : r \in DigitRuns}

\* A version core followed by any text.
SectionTexts == {<<"1", ".", "0", ".", "0">> \o t : t \in Texts(MaxTail)}

\* Texts whose length is around the limit: a run of one character after a short
\* head and before a short end.
LongTexts ==
  LET M == MAX_VERSION_STRING_CODEUNIT_COUNT
      heads == {<<>>, <<"1", ".", "0", ".", "0", "-">>, <<"1", ".", "0", ".", "0", "+">>}
      ends == {<<>>, <<".">>, <<"+">>, <<" ">>}
      around == {n \in (M - LimitMargin)..(M + LimitMargin) : n > 0}
  IN {h \o Rep(c, n - Len(h) - Len(e)) \o e :
        h \in heads, e \in ends, c \in {"a", CuneiformA}, n \in around}
     \cup {Rep(CuneiformA, n) : n \in {k \in 1..M : 2 * k \in around \cup {M + 2}}}

\* Texts of the test suite and of the documentation.
DocumentedTexts ==
  {<<"1", ".", "1", ".", "1", "-", "a", "+", "b", ".", "c", " ">>,
   <<"1", ".", "0", ".", "0", "+", "b", "-", "p">>,
   <<"1", ".", "0", ".", "0", "-", "a", "l", "p", "h", "a", "-", "1">>,
   <<"1", ".", "0", ".", "0", "+", "b", "u", "i", "l", "d", "-", "7">>,
   <<"1", ".", "0", ".", "0", "-", "1", "2", "3", ".", "a", "b", "c", "1", "2", "3", "+", "4", "5", "6", ".", "d", "e", "f", "4", "5", "6">>,
   <<"2", "0", "0", ".", "3", "0", "0", "0", ".", "4", "0", "0", "0", "0">>,
   <<"1", ".", "1", ".", "1", "-", "a", "+", "b", ".">>,
   <<"1", ".", "1", ".", "1", "-">>}

Inputs == ShortTexts \cup ComponentTexts \cup SectionTexts \cup LongTexts \cup DocumentedTexts

Args == {TextArg(t) : t \in Inputs} \cup NonTextArgs

\* ------------------------------------------------------------ the state machine

VARIABLES arg, pc, p, name, num_str, should_be_zero, major, minor, patch,
          current, identifiers, prerelease_identifiers, build_identifiers,
          markers, result

vars == <<arg, pc, p, name, num_str, should_be_zero, major, minor, patch,
          current, identifiers, prerelease_identifiers, build_identifiers,
          markers, result>>

State ==
  [arg |-> arg, pc |-> pc, p |-> p, name |-> name,
   num_str |-> num_str, should_be_zero |-> should_be_zero,
   major |-> major, minor |-> minor, patch |-> patch,
   current |-> current, identifiers |-> identifiers,
   prerelease_identifiers |-> prerelease_identifiers,
   build_identifiers |-> build_identifiers,
   markers |-> markers, result |-> result]

Becomes(n) ==
  /\ arg' = n.arg /\ pc' = n.pc /\ p' = n.p /\ name' = n.name
  /\ num_str' = n.num_str /\ should_be_zero' = n.should_be_zero
  /\ major' = n.major /\ minor' = n.minor /\ patch' = n.patch
  /\ current' = n.current /\ identifiers' = n.identifiers
  /\ prerelease_identifiers' = n.prerelease_identifiers
  /\ build_identifiers' = n.build_identifiers
  /\ markers' = n.markers /\ result' = n.result

Init ==
  \E a \in Args :
    LET s == Start(a) IN
    /\ arg = s.arg /\ pc = s.pc /\ p = s.p /\ name = s.name
    /\ num_str = s.num_str /\ should_be_zero = s.should_be_zero
    /\ major = s.major /\ minor = s.minor /\ patch = s.patch
    /\ current = s.current /\ identifiers = s.identifiers
    /\ prerelease_identifiers = s.prerelease_identifiers
    /\ build_identifiers = s.build_identifiers
    /\ markers = s.markers /\ result = s.result

ParseEnter == pc = "parse" /\ Becomes(parse_enter(State))

VcFirst == pc = "vc_first" /\ Becomes(vc_first(State))

VcZero == pc = "vc_zero" /\ Becomes(vc_zero(State))

VcRest == pc = "vc_rest" /\ Becomes(vc_rest(State))

ExpectDelimiter == pc = "delimiter" /\ Becomes(expect_delimiter(State))

PrereleaseStart == pc = "prerelease_start" /\ Becomes(prerelease_start(State))

BuildStart == pc = "build_start" /\ Becomes(build_start(State))

IdFirst == pc = "id_first" /\ Becomes(id_first(State))

IdRest == pc = "id_rest" /\ Becomes(id_rest(State))

IdDot == pc = "id_dot" /\ Becomes(id_dot(State))

ParseReturn == pc = "at_end" /\ Becomes(parse_return(State))

Next ==
  \/ ParseEnter
  \/ VcFirst
  \/ VcZero
  \/ VcRest
  \/ ExpectDelimiter
  \/ PrereleaseStart
  \/ BuildStart
  \/ IdFirst
  \/ IdRest
  \/ IdDot
  \/ ParseReturn

Spec == Init /\ [][Next]_vars

\* ------------------------------------------------------------ properties

Done == pc = "done"

ReturnedSemVer == Done /\ result.kind = "SemVer"

IsText == arg.kind = "str"

\* C1: round trip: when parse returns a SemVer v, parsing str(v) returns a SemVer
\* equal to v (same major, minor, patch and the same ordered identifier lists).
C1_RoundTrip ==
  ReturnedSemVer => parse(TextArg(SemVer_str(result.value))) = Returned(result.value)

\* A returned SemVer with both sections whose text differs from str() of it.
C1_Witness ==
  /\ ReturnedSemVer
  /\ Len(result.value.prerelease_identifiers) > 1
  /\ Len(result.value.build_identifiers) > 0
  /\ parse(TextArg(SemVer_str(result.value))) = Returned(result.value)

\* C2: completeness: every text of at most 256 characters derivable from
\* <valid semver> in the documented grammar is accepted by parse.
C2_Completeness ==
  (Done /\ IsText /\ Len(arg.text) <= MAX_VERSION_STRING_CODEUNIT_COUNT /\ valid_semver(arg.text))
    => result.kind = "SemVer"

\* C3: soundness: every text on which parse returns a SemVer is derivable from
\* <valid semver> in the documented grammar.
C3_Soundness == ReturnedSemVer => valid_semver(arg.text)

\* C4: outcome taxonomy: a call ends with a SemVer, the type error or the parse
\* error; the type error is raised exactly for an argument that is no text.
C4_Taxonomy ==
  Done =>
    /\ result.kind \in {"SemVer", "TypeError", "SemVerParseError"}
    /\ result.kind = "TypeError" <=> ~IsText

\* UTF-16 code units of a character and of a text.
Utf16Units(c) == IF c = CuneiformA THEN 2 ELSE 1

Utf16Len(t) == Len(t) + Cardinality({i \in 1..Len(t) : Utf16Units(t[i]) = 2})

LimitExceeded == result.kind = "SemVerParseError" /\ result.msg = MsgLimit

\* C5 as stated: a text of more than 256 UTF-16 code units fails with "Limit
\* exceeded" before a cursor exists, and no text of at most 256 units does.
C5_Utf16Guard ==
  (Done /\ IsText) =>
    IF Utf16Len(arg.text) > MAX_VERSION_STRING_CODEUNIT_COUNT
    THEN LimitExceeded /\ p = NoCursor
    ELSE ~LimitExceeded

\* C5 amended: the guard counts characters (code points): a text of more than 256
\* characters fails with "Limit exceeded" before a cursor exists and before any
\* character is read, and no text of at most 256 characters does.
C5_LengthGuard ==
  (Done /\ IsText) =>
    IF Len(arg.text) > MAX_VERSION_STRING_CODEUNIT_COUNT
    THEN LimitExceeded /\ p = NoCursor /\ num_str = <<>> /\ current = <<>>
    ELSE ~LimitExceeded /\ p.created

\* A text one character over the limit was rejected by the guard.
C5_Witness ==
  /\ Done /\ LimitExceeded
  /\ Len(arg.text) = MAX_VERSION_STRING_CODEUNIT_COUNT + 1

\* ---- C6

\* The texts a failed rule may still require after the reported offset.
Completions ==
  {<<>>, <<"a">>, <<"0">>, <<"0", ".", "0">>, <<"0", ".", "0", ".", "0">>,
   <<".", "0">>, <<".", "0", ".", "0">>}

\* The texts tried after the character at the reported offset.
Extensions == Completions \cup {<<c>> : c \in Alphabet}

Accepted(t) == parse(TextArg(t)).kind = "SemVer"

OffsetError == Done /\ result.kind = "SemVerParseError" /\ result.at >= 0

\* The input before the reported offset, and up to and including it.
Before == Sub(arg.text, 1, result.at)

Upto == Sub(arg.text, 1, result.at + 1)

\* The shortest text that the rule named by the message still requires.
Required ==
  CASE result.msg = MsgNumber ->
         (CASE name = "major" -> <<"0", ".", "0", ".", "0">>
            [] name = "minor" -> <<"0", ".", "0">>
            [] name = "patch" -> <<"0">>)
    [] result.msg = MsgZero ->
         (CASE name = "major" -> <<".", "0", ".", "0">>
            [] name = "minor" -> <<".", "0">>
            [] name = "patch" -> <<>>)
    [] result.msg = MsgDelimiter ->
         (CASE name = "major" -> <<".", "0", ".", "0">>
            [] name = "minor" -> <<".", "0">>)
    [] result.msg = MsgIdentifier -> <<"a">>
    [] result.msg = MsgLatin ->
         IF Before[Len(Before)] \in {"-", "+", "."} THEN <<"a">> ELSE <<>>
    [] result.msg = MsgTrailing -> <<>>

\* The documented diagnostics.
DocumentedDiagnostics ==
  /\ arg.text = <<"1", ".", "1", ".", "1", "-", "a", "+", "b", ".", "c", " ">>
       => result = Raised("SemVerParseError", MsgTrailing, "", 11)
  /\ arg.text = <<"1", ".", "1", ".", "1", "-", "a", "+", "b", ".">>
       => result = Raised("SemVerParseError", MsgIdentifier, "build", 10)
  /\ arg.text = <<"1", ".", "1", ".", "1", "-">>
       => result = Raised("SemVerParseError", MsgIdentifier, "pre-release", 6)
  /\ arg.text = <<"0", "1", ".", "0", ".", "0">>
       => result = Raised("SemVerParseError", MsgZero, "", 1)
  /\ arg.text = <<>> => result = Raised("SemVerParseError", MsgNumber, "major", 0)

NothingAcceptedPast ==
  result.at < Len(arg.text) => \A e \in Extensions : ~Accepted(Upto \o e)

\* C6 as stated: the reported offset k is within the input, the input before k
\* extends to an accepted text (properly when k is the end of the input), and no
\* text that starts with the input up to and including k is accepted.
C6_FirstProblem ==
  OffsetError =>
    /\ result.at <= Len(arg.text)
    /\ \E c \in Completions : Accepted(Before \o c)
    /\ NothingAcceptedPast
    /\ result.at = Len(arg.text) => \E c \in Completions \ {<<>>} : Accepted(arg.text \o c)
    /\ DocumentedDiagnostics

\* C6 amended: the input before k, followed by the shortest text the rule named by
\* the message still requires, is accepted whenever it fits the length limit.
C6_FirstProblemWithinLimit ==
  OffsetError =>
    /\ result.at <= Len(arg.text)
    /\ Len(Before \o Required) <= MAX_VERSION_STRING_CODEUNIT_COUNT => Accepted(Before \o Required)
    /\ NothingAcceptedPast
    /\ result.at = Len(arg.text) => Required # <<>>
    /\ DocumentedDiagnostics

\* An input that ends where an identifier is required.
C6_Witness ==
  /\ OffsetError
  /\ result.msg = MsgIdentifier
  /\ result.at = Len(arg.text)
  /\ Accepted(arg.text \o Required)

\* ---- C7

\* A digit whose value is zero.
ZeroDigit(c) == c \in {"0", ArabicZero}

\* The end of the run of digits that starts at i.
RunEnd(t, i) ==
  CHOOSE j \in i..(Len(t) + 1) :
    /\ j = Len(t) + 1 \/ ~isdigit(t[j])
    /\ \A m \in i..(j - 1) : isdigit(t[m])

\* The digit runs of major, minor and patch in an accepted text.
ComponentRuns(t) ==
  LET e1 == RunEnd(t, 1)
      e2 == RunEnd(t, e1 + 1)
      e3 == RunEnd(t, e2 + 1)
  IN {Sub(t, 1, e1 - 1), Sub(t, e1 + 1, e2 - 1), Sub(t, e2 + 1, e3 - 1)}

\* C7: the digit run of each component of a returned SemVer is a single zero or
\* does not begin with a zero; a zero followed by a digit fails with "Unexpected
\* digit at offset k, numbers cannot start with zero", k the second digit.
C7_LeadingZero ==
  /\ ReturnedSemVer => \A r \in ComponentRuns(arg.text) : Len(r) = 1 \/ ~ZeroDigit(r[1])
  /\ (pc = "vc_zero" /\ ZeroDigit(num_str[1]) /\ next_is_digit(p))
       => vc_zero(State).result = Raised("SemVerParseError", MsgZero, "", p.offset)

\* ---- C8

AsciiAlnum(t) == Len(t) > 0 /\ \A i \in 1..Len(t) : t[i] \in digit \cup letter

\* The public constructor fails exactly on the empty string and on a string with
\* a character that is no ASCII letter or digit.
ConstructorRule == \A t \in Texts(MaxShort) : Identifier(t, FALSE).ok <=> AsciiAlnum(t)

IdentifiersOf(ids) == {ids[i].value : i \in 1..Len(ids)}

HasMarker(m) == \E i \in 1..Len(markers) : markers[i] = m

\* C8: every Identifier built through the bypass passes the public constructor;
\* in a returned SemVer every identifier is non-empty ASCII alphanumeric and a
\* list is non-empty exactly when its marker was consumed.
C8_Identifiers ==
  /\ ConstructorRule
  /\ \A t \in IdentifiersOf(identifiers) \cup IdentifiersOf(prerelease_identifiers)
                \cup IdentifiersOf(build_identifiers) : Identifier(t, FALSE).ok
  /\ ReturnedSemVer =>
       /\ \A t \in IdentifiersOf(result.value.prerelease_identifiers)
                     \cup IdentifiersOf(result.value.build_identifiers) : AsciiAlnum(t)
       /\ result.value.prerelease_identifiers # <<>> <=> HasMarker("-")
       /\ result.value.build_identifiers # <<>> <=> HasMarker("+")

\* A returned SemVer with pre-release identifiers and no build section.
C8_Witness ==
  /\ ReturnedSemVer
  /\ Len(result.value.prerelease_identifiers) > 1
  /\ result.value.build_identifiers = <<>>
  /\ markers = <<"-">>

\* ---- C9

\* The place of a step in parse's fixed sequence.
Rank(at, nm) ==
  CASE at = "parse" -> 0
    [] at \in {"vc_first", "vc_zero", "vc_rest"} ->
         (CASE nm = "major" -> 1 [] nm = "minor" -> 3 [] nm = "patch" -> 5)
    [] at = "delimiter" -> (CASE nm = "major" -> 2 [] nm = "minor" -> 4)
    [] at = "prerelease_start" -> 6
    [] at \in {"id_first", "id_rest", "id_dot"} ->
         (CASE nm = "pre-release" -> 7 [] nm = "build" -> 9)
    [] at = "build_start" -> 8
    [] at = "at_end" -> 10
    [] at = "done" -> 11

SectionOrder ==
  /\ markers \in {<<>>, <<"-">>, <<"+">>, <<"-", "+">>}
  /\ (Done /\ ~HasMarker("-")) => prerelease_identifiers = <<>>
  /\ (Done /\ arg.text = <<"1", ".", "0", ".", "0", "+", "b", "-", "p">>)
       => /\ result = Raised("SemVerParseError", MsgTrailing, "", 7)
          /\ prerelease_identifiers = <<>>
  /\ (Done /\ arg.text = <<"1", ".", "0", ".", "0", "+", "a">>) => result.kind = "SemVer"

SectionStep ==
  /\ Rank(pc', name') >= Rank(pc, name)
  /\ pc \in {"prerelease_start", "build_start"} => Rank(pc', name') > Rank(pc, name)

CursorInRange ==
  /\ p.offset \in 0..Len(p.input)
  /\ p.created => p.input = arg.text
  /\ result.msg # MsgInternal

CursorStep ==
  \/ p'.offset = p.offset
  \/ p'.offset = p.offset + 1 /\ p.offset < Len(p.input)

\* C10: the offset stays within [0, len(input)], a step leaves it unchanged or
\* advances it by exactly one, and advance() is never called at the end of input.
C10_CursorSafety == [](CursorInRange) /\ [][CursorStep]_vars

\* The cursor has been advanced to the end of a non-empty input.
C10_Witness == p.created /\ p.offset > 0 /\ at_end(p)

====
